---- MODULE Spec2Model ----
(***************************************************************************)
(* KPI engine of the manufacturer market-health dashboard                   *)
(* (src/src/data_processor.py, class DataProcessor).                        *)
(*                                                                         *)
(* A DataFrame is a record [columns, rows]: the set of its column names    *)
(* and the sequence of its rows (records), in index order.  A datetime is  *)
(* its proleptic Gregorian ordinal (datetime.toordinal()); every datetime  *)
(* of the model is at midnight.  A Python float is the exact rational      *)
(* <<numerator, denominator>> in lowest terms.                             *)
(***************************************************************************)
EXTENDS Integers, Sequences, FiniteSets, TLC

VARIABLES product_df, sale_df, call, ret, setter, products_table, sales_table, imported, loader

\* the engine and its callers; the database and its importers
engine == <<product_df, sale_df, call, ret, setter>>
db == <<products_table, sales_table, imported, loader>>

vars == <<product_df, sale_df, call, ret, setter, products_table, sales_table, imported, loader>>

(***************************************************************************)
(* Bounds of the model                                                     *)
(***************************************************************************)
MaxProducts == 2
MaxSales == 3
MaxTopN == 2
MaxWindowSales == 2
MaxStart == 1
MaxSpan == 2
MaxSwaps == 1
MaxLogId == 2
MaxList == 2
MaxBatchSize == 2
MaxRecords == 3

\* None, where a frame, a call or a result is expected
None == [none |-> TRUE]

\* None, where a datetime is expected (proleptic ordinals start at 1)
NoDate == 0

(***************************************************************************)
(* Value sets the snapshots and the call arguments are drawn from          *)
(***************************************************************************)
Prods == {101, 102}
Cats == {5, 10}
Fabs == {1, 2}
Mags == {10, 20}
DateIds == {20220101, 20220102, 20220131}
TopNs == 1..MaxTopN
StoreCounts == 0..MaxTopN \cup {5}
Years == {2022}
Freqs == {"D", "W", "M"}

(***************************************************************************)
(* Floats as exact rationals                                               *)
(***************************************************************************)
RECURSIVE GCD(_, _)
GCD(a, b) == IF b = 0 THEN a ELSE GCD(b, a % b)

Rat(n, d) == IF n = 0 THEN <<0, 1>> ELSE <<n \div GCD(n, d), d \div GCD(n, d)>>

Zero == Rat(0, 1)
One == Rat(1, 1)
RatAdd(x, y) == Rat(x[1] * y[2] + y[1] * x[2], x[2] * y[2])
RatLeq(x, y) == x[1] * y[2] <= y[1] * x[2]

RECURSIVE RatSum(_)
RatSum(s) == IF s = <<>> THEN Zero ELSE RatAdd(Head(s), RatSum(Tail(s)))

\* sum(xs) / len(xs)
Mean(s) == LET t == RatSum(s) IN Rat(t[1], t[2] * Len(s))

(***************************************************************************)
(* Calendar: datetime(year, month, day) and pandas.to_datetime             *)
(***************************************************************************)
IsLeap(y) == (y % 4 = 0) /\ ((y % 100 # 0) \/ (y % 400 = 0))

DaysInMonth(y, m) ==
    IF m = 2 THEN (IF IsLeap(y) THEN 29 ELSE 28)
    ELSE IF m \in {4, 6, 9, 11} THEN 30 ELSE 31

RECURSIVE DaysBeforeMonth(_, _)
DaysBeforeMonth(y, m) ==
    IF m = 1 THEN 0 ELSE DaysBeforeMonth(y, m - 1) + DaysInMonth(y, m - 1)

DaysBeforeYear(y) ==
    (y - 1) * 365 + ((y - 1) \div 4) - ((y - 1) \div 100) + ((y - 1) \div 400)

\* datetime(y, m, d).toordinal()
datetime(y, m, d) == DaysBeforeYear(y) + DaysBeforeMonth(y, m) + d

YearOf(o) ==
    LET y0 == (o * 400) \div 146097 + 1
    IN  CHOOSE y \in (y0 - 1)..(y0 + 1) :
            DaysBeforeYear(y) < o /\ o <= DaysBeforeYear(y + 1)
MonthOf(o) ==
    LET y == YearOf(o)
    IN  CHOOSE m \in 1..12 :
            /\ datetime(y, m, 1) <= o
            /\ o <= datetime(y, m, DaysInMonth(y, m))

\* datetime.weekday(): Monday is 0, Sunday is 6
Weekday(o) == (o + 6) % 7

\* the last day of the month of o
EndOfMonth(o) == datetime(YearOf(o), MonthOf(o), DaysInMonth(YearOf(o), MonthOf(o)))

\* the fields of a date_id read as YYYYMMDD
IdYear(date_id) == date_id \div 10000
IdMonth(date_id) == (date_id \div 100) % 100
IdDay(date_id) == date_id % 100

\* pd.to_datetime(str(date_id), format='%Y%m%d') succeeds
Decodable(date_id) ==
    /\ date_id >= 10000000 /\ date_id <= 99999999
    /\ IdMonth(date_id) \in 1..12
    /\ IdDay(date_id) \in 1..DaysInMonth(IdYear(date_id), IdMonth(date_id))

to_datetime(date_id) == datetime(IdYear(date_id), IdMonth(date_id), IdDay(date_id))

(***************************************************************************)
(* DataFrames                                                              *)
(***************************************************************************)
ProductColumns == {"log_id", "prod_id", "cat_id", "fab_id", "date_id"}
SaleColumns == ProductColumns \cup {"mag_id"}

\* df.empty
empty(df) == df.rows = <<>>

\* the rows of a frame, as a set
RowsOf(df) == {df.rows[i] : i \in DOMAIN df.rows}

\* df[mask]: the rows of df that are in the set keep, in index order
Where(df, keep) ==
    [columns |-> df.columns, rows |-> SelectSeq(df.rows, LAMBDA r : r \in keep)]

\* nunique mistaken for a count of rows
nunique_counting_rows(df, col) == Len(df.rows)

\* df[col].nunique()
nunique(df, col) == Cardinality({df.rows[i][col] : i \in DOMAIN df.rows})

\* the index of the first row of rows whose column col is v
FirstIndex(rows, col, v) == CHOOSE i \in DOMAIN rows :
    rows[i][col] = v /\ \A j \in 1..(i - 1) : rows[j][col] # v

\* df[col].value_counts(): <<value, count>> by count descending, equal counts
\* in order of first appearance
value_counts(df, col) ==
    LET values == {df.rows[i][col] : i \in DOMAIN df.rows}
        count(v) == Cardinality({i \in DOMAIN df.rows : df.rows[i][col] = v})
        before(u, v) ==
            \/ count(u) > count(v)
            \/ count(u) = count(v)
               /\ FirstIndex(df.rows, col, u) < FirstIndex(df.rows, col, v)
        rank(v) == Cardinality({u \in values : before(u, v)}) + 1
    IN  [k \in 1..Cardinality(values) |->
            LET v == CHOOSE x \in values : rank(x) = k IN <<v, count(v)>>]

\* s.head(n)
head(s, n) == SubSeq(s, 1, IF n < Len(s) THEN n ELSE Len(s))

\* add_date_column(df): the columns date and month are added only when
\* df['date_id'].iloc[0] is a Python str, int or float (lines 75, 88, 97).  The
\* date_id column of a frame built from integer records holds numpy int64
\* values, which are none of these, so every branch is skipped and the frame
\* comes back as it is (line 113); so does an empty frame (line 65).
add_date_column(df) ==
    IF df = None THEN df
    ELSE IF empty(df) THEN df
    ELSE IF "date" \in df.columns THEN df
    ELSE df

\* (df['date_formatted'] >= start_date) & (df['date_formatted'] <= end_date)
InRange(row, start_date, end_date) ==
    row.date_formatted >= start_date /\ row.date_formatted <= end_date

\* the filter applied with the one bound that is given
DateFilter_with_one_bound(df, with_date, start_date, end_date) ==
    IF (start_date # NoDate \/ end_date # NoDate) /\ "date_formatted" \in with_date.columns
    THEN Where(df, {r \in RowsOf(df) :
                       /\ start_date # NoDate => r.date_formatted >= start_date
                       /\ end_date # NoDate => r.date_formatted <= end_date})
    ELSE df

\* the date filter of the range queries: applied when both bounds are given and
\* the frame has a date_formatted column
DateFilter(df, with_date, start_date, end_date) ==
    IF start_date # NoDate /\ end_date # NoDate /\ "date_formatted" \in with_date.columns
    THEN Where(df, {r \in RowsOf(df) : InRange(r, start_date, end_date)})
    ELSE df

(***************************************************************************)
(* Range queries over the product table                                    *)
(***************************************************************************)
count_market_actors_by_category(pdf, category_id, start_date, end_date) ==
    IF pdf = None THEN 0
    ELSE LET prod_df_with_date == add_date_column(pdf)
             filtered_products ==
                 DateFilter(Where(prod_df_with_date,
                                  {r \in RowsOf(prod_df_with_date) :
                                      r.cat_id = category_id}),
                            prod_df_with_date, start_date, end_date)
         IN  nunique(filtered_products, "fab_id")

manufacturer_products_in_category(pdf, manufacturer_id, category_id, start_date, end_date) ==
    IF pdf = None THEN 0
    ELSE LET prod_df_with_date == add_date_column(pdf)
             filtered_products ==
                 DateFilter(Where(prod_df_with_date,
                                  {r \in RowsOf(prod_df_with_date) :
                                      /\ r.cat_id = category_id
                                      /\ r.fab_id = manufacturer_id}),
                            prod_df_with_date, start_date, end_date)
         IN  nunique(filtered_products, "prod_id")

\* the share with the manufacturer's records counted, not its distinct products
manufacturer_share_counting_rows(pdf, manufacturer_id, category_id, start_date, end_date) ==
    IF pdf = None THEN Zero
    ELSE LET prod_df_with_date == add_date_column(pdf)
             category_products ==
                 DateFilter(Where(prod_df_with_date,
                                  {r \in RowsOf(prod_df_with_date) :
                                      r.cat_id = category_id}),
                            prod_df_with_date, start_date, end_date)
             total_products == nunique(category_products, "prod_id")
             manufacturer_rows ==
                 Len(Where(category_products,
                           {r \in RowsOf(category_products) :
                               r.fab_id = manufacturer_id}).rows)
         IN  IF empty(category_products) THEN Zero
             ELSE Rat(manufacturer_rows, total_products)

\* the share with the category's records as denominator, not its distinct products
manufacturer_share_of_rows(pdf, manufacturer_id, category_id, start_date, end_date) ==
    IF pdf = None THEN Zero
    ELSE LET prod_df_with_date == add_date_column(pdf)
             category_products ==
                 DateFilter(Where(prod_df_with_date,
                                  {r \in RowsOf(prod_df_with_date) :
                                      r.cat_id = category_id}),
                            prod_df_with_date, start_date, end_date)
             manufacturer_products_count ==
                 nunique(Where(category_products,
                               {r \in RowsOf(category_products) :
                                   r.fab_id = manufacturer_id}),
                         "prod_id")
         IN  IF empty(category_products) THEN Zero
             ELSE Rat(manufacturer_products_count, Len(category_products.rows))

manufacturer_share_in_category(pdf, manufacturer_id, category_id, start_date, end_date) ==
    IF pdf = None THEN Zero
    ELSE LET prod_df_with_date == add_date_column(pdf)
             category_products ==
                 DateFilter(Where(prod_df_with_date,
                                  {r \in RowsOf(prod_df_with_date) :
                                      r.cat_id = category_id}),
                            prod_df_with_date, start_date, end_date)
             total_products == nunique(category_products, "prod_id")
             manufacturer_products_count ==
                 nunique(Where(category_products,
                               {r \in RowsOf(category_products) :
                                   r.fab_id = manufacturer_id}),
                         "prod_id")
         IN  IF empty(category_products) THEN Zero
             ELSE IF total_products > 0
             THEN Rat(manufacturer_products_count, total_products)
             ELSE Zero

\* the sum of the values of a function f over the finite set S of integers
RECURSIVE SumOver(_, _)
SumOver(f, S) ==
    IF S = {} THEN 0
    ELSE LET x == CHOOSE y \in S : TRUE IN f[x] + SumOver(f, S \ {x})

\* the mean of the record counts per manufacturer, not of the distinct products
products_per_manufacturer_counting_rows(filtered_products) ==
    LET fabs == {r.fab_id : r \in RowsOf(filtered_products)}
    IN  [f \in fabs |->
            Len(Where(filtered_products,
                      {r \in RowsOf(filtered_products) : r.fab_id = f}).rows)]

\* filtered_products.groupby('fab_id')['prod_id'].nunique(), as a function of fab_id
products_per_manufacturer(filtered_products) ==
    LET fabs == {r.fab_id : r \in RowsOf(filtered_products)}
    IN  [f \in fabs |->
            nunique(Where(filtered_products,
                          {r \in RowsOf(filtered_products) : r.fab_id = f}),
                    "prod_id")]

avg_products_per_manufacturer_by_category(pdf, category_id, start_date, end_date) ==
    IF pdf = None THEN Zero
    ELSE LET prod_df_with_date == add_date_column(pdf)
             filtered_products ==
                 DateFilter(Where(prod_df_with_date,
                                  {r \in RowsOf(prod_df_with_date) :
                                      r.cat_id = category_id}),
                            prod_df_with_date, start_date, end_date)
             per_manufacturer == products_per_manufacturer(filtered_products)
         IN  IF empty(filtered_products) THEN Zero
             ELSE IF DOMAIN per_manufacturer = {} THEN Zero
             ELSE Rat(SumOver(per_manufacturer, DOMAIN per_manufacturer),
                      Cardinality(DOMAIN per_manufacturer))

(***************************************************************************)
(* manufacturer_health_score                                               *)
(***************************************************************************)
\* the presence check without the manufacturer
manufacturer_products_any_fab(pdf, manufacturer_id, category_id) ==
    Where(pdf, {r \in RowsOf(pdf) : r.cat_id = category_id})

\* the product records of the manufacturer in the category (lines 245-248)
manufacturer_products(pdf, manufacturer_id, category_id) ==
    Where(pdf, {r \in RowsOf(pdf) :
                   r.cat_id = category_id /\ r.fab_id = manufacturer_id})

\* the first stores met, not the stores with the most agreements
top_store_ids_unsorted(filtered_sales, top_n_stores) ==
    LET firsts == SelectSeq([i \in DOMAIN filtered_sales.rows |-> i],
                            LAMBDA i : FirstIndex(filtered_sales.rows, "mag_id",
                                                  filtered_sales.rows[i].mag_id) = i)
        ids == [k \in DOMAIN firsts |-> filtered_sales.rows[firsts[k]].mag_id]
    IN  head(ids, top_n_stores)

\* filtered_sales['mag_id'].value_counts().head(top_n_stores).index.tolist()
top_store_ids(filtered_sales, top_n_stores) ==
    LET counts == head(value_counts(filtered_sales, "mag_id"), top_n_stores)
    IN  [k \in DOMAIN counts |-> counts[k][1]]

\* the n first stores in order of first appearance, not by agreement count
top_stores_unsorted(sdf, n) ==
    LET firsts == SelectSeq([i \in DOMAIN sdf.rows |-> i],
                            LAMBDA i : FirstIndex(sdf.rows, "mag_id", sdf.rows[i].mag_id) = i)
        count(v) == Cardinality({i \in DOMAIN sdf.rows : sdf.rows[i].mag_id = v})
    IN  head([k \in DOMAIN firsts |->
                 [mag_id |-> sdf.rows[firsts[k]].mag_id,
                  agreement_count |-> count(sdf.rows[firsts[k]].mag_id)]], n)

\* the n last stores of the ranking, not the n first
top_stores_tail(sdf, n) ==
    LET store_counts == value_counts(sdf, "mag_id")
        entries == [k \in DOMAIN store_counts |->
                       [mag_id |-> store_counts[k][1],
                        agreement_count |-> store_counts[k][2]]]
    IN  SubSeq(entries, IF n < Len(entries) THEN Len(entries) - n + 1 ELSE 1, Len(entries))

\* top_stores(n): the rows of the frame returned (lines 206-210)
top_stores(sdf, n) ==
    LET store_counts == value_counts(sdf, "mag_id")
    IN  head([k \in DOMAIN store_counts |->
                 [mag_id |-> store_counts[k][1],
                  agreement_count |-> store_counts[k][2]]], n)

\* the products of every manufacturer taken for the manufacturer's
store_score_of_any_manufacturer(filtered_sales, store_id, manufacturer_id, category_id) ==
    LET store_sales ==
            Where(filtered_sales,
                  {r \in RowsOf(filtered_sales) :
                      r.mag_id = store_id /\ r.cat_id = category_id})
        unique_products == nunique(store_sales, "prod_id")
    IN  IF empty(store_sales) THEN Zero
        ELSE Rat(unique_products, unique_products)

\* the manufacturer's sale records counted, not its distinct products
store_score_counting_rows(filtered_sales, store_id, manufacturer_id, category_id) ==
    LET store_sales ==
            Where(filtered_sales,
                  {r \in RowsOf(filtered_sales) :
                      r.mag_id = store_id /\ r.cat_id = category_id})
        unique_products == nunique(store_sales, "prod_id")
        manufacturer_sold ==
            Len(Where(store_sales,
                      {r \in RowsOf(store_sales) : r.fab_id = manufacturer_id}).rows)
    IN  IF empty(store_sales) THEN Zero
        ELSE Rat(manufacturer_sold, unique_products)

\* the sub-score of one top store (lines 265-284)
store_score(filtered_sales, store_id, manufacturer_id, category_id) ==
    LET store_sales ==
            Where(filtered_sales,
                  {r \in RowsOf(filtered_sales) :
                      r.mag_id = store_id /\ r.cat_id = category_id})
        unique_products == nunique(store_sales, "prod_id")
        manufacturer_sold ==
            nunique(Where(store_sales,
                          {r \in RowsOf(store_sales) : r.fab_id = manufacturer_id}),
                    "prod_id")
    IN  IF empty(store_sales) THEN Zero
        ELSE IF unique_products > 0 THEN Rat(manufacturer_sold, unique_products)
        ELSE Zero

manufacturer_health_score(pdf, sdf, manufacturer_id, category_id, start_date, end_date, top_n_stores) ==
    IF sdf = None \/ pdf = None THEN Zero
    ELSE LET sale_df_with_date == add_date_column(sdf)
             filtered_sales ==
                 DateFilter(sale_df_with_date, sale_df_with_date, start_date, end_date)
             top_store_list == top_store_ids(filtered_sales, top_n_stores)
             store_scores ==
                 [k \in DOMAIN top_store_list |->
                     store_score(filtered_sales, top_store_list[k],
                                 manufacturer_id, category_id)]
         IN  IF empty(filtered_sales) THEN Zero
             ELSE IF empty(manufacturer_products(pdf, manufacturer_id, category_id))
             THEN Zero
             ELSE IF top_store_list = <<>> THEN Zero
             ELSE Mean(store_scores)

(***************************************************************************)
(* pandas.date_range(start, end, freq) for the three granularities the     *)
(* dashboard offers: every day, every Sunday ('W'), every month end ('M')  *)
(***************************************************************************)
RECURSIVE MonthEnds(_, _)
MonthEnds(cur, end) ==
    IF cur > end THEN <<>> ELSE <<cur>> \o MonthEnds(EndOfMonth(cur + 1), end)

date_range(start, end, freq) ==
    IF freq = "M" THEN MonthEnds(EndOfMonth(start), end)
    ELSE IF freq = "W"
    THEN LET first == start + ((6 - Weekday(start)) % 7)
         IN  IF first > end THEN <<>>
             ELSE [i \in 1..((end - first) \div 7 + 1) |-> first + 7 * (i - 1)]
    ELSE IF start > end THEN <<>>
    ELSE [i \in 1..(end - start + 1) |-> start + (i - 1)]

(***************************************************************************)
(* market_actors_over_time                                                 *)
(***************************************************************************)
\* the periods of the loop of lines 312-314: <<period_start, period_end>>
market_periods(start_date, end_date, freq) ==
    LET time_periods == date_range(start_date, end_date, freq)
    IN  [i \in 1..(Len(time_periods) - 1) |-> <<time_periods[i], time_periods[i + 1]>>]

\* the end of the period taken in
in_market_period_closed(date, period) == date >= period[1] /\ date <= period[2]

\* (filtered_df['date'] >= period_start) & (filtered_df['date'] < period_end)
in_market_period(date, period) == date >= period[1] /\ date < period[2]

\* the row of one period (lines 313-326)
market_result(filtered_df, period) ==
    [period_start |-> period[1],
     actor_count |->
        nunique(Where(filtered_df,
                      {r \in RowsOf(filtered_df) :
                          in_market_period(to_datetime(r.date_id), period)}),
                "fab_id")]

\* the rows the loop appends (lines 311-326)
RECURSIVE market_results(_, _)
market_results(filtered_df, periods) ==
    IF periods = <<>> THEN <<>>
    ELSE <<market_result(filtered_df, Head(periods))>>
         \o market_results(filtered_df, Tail(periods))

market_actors_over_time(pdf, category_id, start_date, end_date, freq) ==
    LET filtered_df ==
            Where(pdf, {r \in RowsOf(pdf) :
                           /\ r.cat_id = category_id
                           /\ to_datetime(r.date_id) >= start_date
                           /\ to_datetime(r.date_id) <= end_date})
    IN  market_results(filtered_df, market_periods(start_date, end_date, freq))

(***************************************************************************)
(* manufacturer_health_score_over_time                                     *)
(***************************************************************************)
\* sale_df.copy() with the column date_formatted added when missing (550-552)
with_date_formatted(sdf) ==
    IF "date_formatted" \in sdf.columns THEN sdf
    ELSE [columns |-> sdf.columns \cup {"date_formatted"},
          rows |-> [i \in DOMAIN sdf.rows |->
                       sdf.rows[i] @@ [date_formatted |-> to_datetime(sdf.rows[i].date_id)]]]

\* period_start + pd.offsets.MonthEnd(1)
MonthEnd1(o) == IF o = EndOfMonth(o) THEN EndOfMonth(o + 1) ELSE EndOfMonth(o)

\* the end of the period that starts at period_start (lines 560-565)
health_period_end(period_start, freq) ==
    IF freq = "M" THEN MonthEnd1(period_start)
    ELSE IF freq = "W" THEN period_start + 6
    ELSE period_start + 1

\* the periods of the loop of lines 558-565: <<period_start, period_end>>
health_periods(start_date, end_date, freq) ==
    LET periods == date_range(start_date, end_date, freq)
    IN  [i \in DOMAIN periods |-> <<periods[i], health_period_end(periods[i], freq)>>]

\* the sale records of one period and category (lines 570-574)
period_sales(sdf, period, category_id) ==
    Where(sdf, {r \in RowsOf(sdf) :
                   /\ r.date_formatted >= period[1]
                   /\ r.date_formatted <= period[2]
                   /\ r.cat_id = category_id})

\* the scores of the top stores of one period (lines 585-602)
period_store_scores(sales, manufacturer_id, top_n_stores) ==
    LET top_store_list == top_store_ids(sales, top_n_stores)
        store_sales(store_id) == Where(sales, {r \in RowsOf(sales) : r.mag_id = store_id})
        total_products(store_id) == nunique(store_sales(store_id), "prod_id")
        counted == SelectSeq(top_store_list, LAMBDA st : total_products(st) > 0)
    IN  [k \in DOMAIN counted |->
            Rat(nunique(Where(store_sales(counted[k]),
                              {r \in RowsOf(store_sales(counted[k])) :
                                  r.fab_id = manufacturer_id}),
                        "prod_id"),
                total_products(counted[k]))]

\* a period without sale of the category left out of the result
period_result_skipping_empty(sdf, period, manufacturer_id, category_id, top_n_stores) ==
    LET sales == period_sales(sdf, period, category_id)
        store_scores == period_store_scores(sales, manufacturer_id, top_n_stores)
    IN  IF Len(sales.rows) = 0 THEN <<>>
        ELSE <<[period |-> period[1],
                health_score |-> IF store_scores # <<>> THEN Mean(store_scores) ELSE Zero]>>

\* the row of one period (lines 576-611)
period_result(sdf, period, manufacturer_id, category_id, top_n_stores) ==
    LET sales == period_sales(sdf, period, category_id)
        store_scores == period_store_scores(sales, manufacturer_id, top_n_stores)
    IN  IF Len(sales.rows) = 0 THEN <<[period |-> period[1], health_score |-> Zero]>>
        ELSE <<[period |-> period[1],
                health_score |-> IF store_scores # <<>> THEN Mean(store_scores) ELSE Zero]>>

RECURSIVE health_results(_, _, _, _, _)
health_results(sdf, periods, manufacturer_id, category_id, top_n_stores) ==
    IF periods = <<>> THEN <<>>
    ELSE period_result(sdf, Head(periods), manufacturer_id, category_id, top_n_stores)
         \o health_results(sdf, Tail(periods), manufacturer_id, category_id, top_n_stores)

manufacturer_health_score_over_time(sdf, manufacturer_id, category_id, start_date, end_date, top_n_stores, freq) ==
    health_results(with_date_formatted(sdf), health_periods(start_date, end_date, freq),
                   manufacturer_id, category_id, top_n_stores)

(***************************************************************************)
(* Discount periods                                                        *)
(***************************************************************************)
\* None, where a category is expected (category ids are positive)
NoCategory == 0

get_winter_discount_period(year) == <<datetime(year, 1, 12), datetime(year, 2, 8)>>
get_summer_discount_period(year) == <<datetime(year, 6, 22), datetime(year, 7, 19)>>

discount_period(is_winter, year) ==
    IF is_winter THEN get_winter_discount_period(year)
    ELSE get_summer_discount_period(year)

\* 'date' if 'date' in df.columns else 'date_formatted'
date_col(df) == IF "date" \in df.columns THEN "date" ELSE "date_formatted"

avg_products_in_discount_period(pdf, category_id, is_winter, year) ==
    IF pdf = None THEN Zero
    ELSE LET period == discount_period(is_winter, year)
             product_df_with_date == add_date_column(pdf)
             col == date_col(product_df_with_date)
             filtered_products ==
                 Where(product_df_with_date,
                       {r \in RowsOf(product_df_with_date) :
                           /\ r.cat_id = category_id
                           /\ r[col] >= period[1]
                           /\ r[col] <= period[2]})
             per_manufacturer == products_per_manufacturer(filtered_products)
         IN  IF col \notin product_df_with_date.columns THEN Zero
             ELSE IF empty(filtered_products) THEN Zero
             ELSE IF DOMAIN per_manufacturer = {} THEN Zero
             ELSE Rat(SumOver(per_manufacturer, DOMAIN per_manufacturer),
                      Cardinality(DOMAIN per_manufacturer))

\* the rows of the frame top_stores_in_discount_period returns
top_stores_in_discount_period(sdf, category_id, n, is_winter, year) ==
    IF sdf = None THEN <<>>
    ELSE LET period == discount_period(is_winter, year)
             sale_df_with_date == add_date_column(sdf)
             col == date_col(sale_df_with_date)
             in_period ==
                 Where(sale_df_with_date,
                       {r \in RowsOf(sale_df_with_date) :
                           r[col] >= period[1] /\ r[col] <= period[2]})
             filtered_sales ==
                 IF category_id # NoCategory
                 THEN Where(in_period, {r \in RowsOf(in_period) : r.cat_id = category_id})
                 ELSE in_period
         IN  IF col \notin sale_df_with_date.columns THEN <<>>
             ELSE IF empty(filtered_sales) THEN <<>>
             ELSE top_stores(filtered_sales, n)

(***************************************************************************)
(* The tables the engine holds after a query.  A query works on            *)
(* self.product_df.copy() / self.sale_df.copy(), or on the frame           *)
(* add_date_column returns, which is the held frame itself or a copy of it *)
(* (line 72); the columns a query adds go to the copy.                     *)
(***************************************************************************)
\* the frame passed to add_date_column, after the call: the columns date and
\* month go to result_df = df.copy() (line 72), never to df
argument_after_add_date_column(df) == df

\* the column 'date' added to the held product table itself
product_df_dated_in_place(pdf) ==
    [columns |-> pdf.columns \cup {"date"},
     rows |-> [i \in DOMAIN pdf.rows |->
                  pdf.rows[i] @@ [date |-> to_datetime(pdf.rows[i].date_id)]]]

\* self.product_df after market_actors_over_time (lines 297-298)
product_df_after_market_actors_over_time(pdf) == pdf

\* the column 'date_formatted' added to the held sale table itself
sale_df_dated_in_place(sdf) ==
    IF "date_formatted" \in sdf.columns THEN sdf
    ELSE [columns |-> sdf.columns \cup {"date_formatted"},
          rows |-> [i \in DOMAIN sdf.rows |->
                       sdf.rows[i] @@ [date_formatted |-> to_datetime(sdf.rows[i].date_id)]]]

\* self.sale_df after manufacturer_health_score_over_time (lines 550-552)
sale_df_after_health_score_over_time(sdf) == sdf

(***************************************************************************)
(* Snapshots: frames as the loaders build them, log_id in row order        *)
(***************************************************************************)
SeqsUpTo(S, n) == UNION {[1..k -> S] : k \in 0..n}

ProductValues(prods, dates) ==
    [prod_id : prods, cat_id : Cats, fab_id : Fabs, date_id : dates]

SaleValues(prods, dates) ==
    [prod_id : prods, cat_id : Cats, fab_id : Fabs, mag_id : Mags, date_id : dates]

\* a frame of the given records; with_formatted: the loader also derived the
\* column date_formatted from date_id (db_handler.py:376, dashboard.py:229)
Frame(columns, values, with_formatted) ==
    [columns |-> IF with_formatted THEN columns \cup {"date_formatted"} ELSE columns,
     rows |-> [i \in DOMAIN values |->
                  IF with_formatted
                  THEN values[i] @@ [log_id |-> i,
                                     date_formatted |-> to_datetime(values[i].date_id)]
                  ELSE values[i] @@ [log_id |-> i]]]

ProductFrames(prods, dates, n, with_formatted) ==
    {Frame(ProductColumns, v, with_formatted) : v \in SeqsUpTo(ProductValues(prods, dates), n)}

SaleFrames(prods, dates, n, with_formatted) ==
    {Frame(SaleColumns, v, with_formatted) : v \in SeqsUpTo(SaleValues(prods, dates), n)}

(***************************************************************************)
(* Call arguments                                                          *)
(***************************************************************************)
NoRange == <<NoDate, NoDate>>

\* date ranges whose bounds are dates of the records
RangesOf(dates) ==
    {<<to_datetime(rg[1]), to_datetime(rg[2])>> :
        rg \in {x \in dates \X dates : x[1] <= x[2]}}

Starts == {datetime(2022, 1, 1) + k : k \in 0..MaxStart}

\* days in one unit of span of a granularity
SpanDays(freq) == IF freq = "M" THEN 30 ELSE IF freq = "W" THEN 7 ELSE 1

Ends(start, freq) == {start + k * SpanDays(freq) : k \in 0..MaxSpan}

\* what a call returns: an integer, a float, or the rows of a frame
ReturnCount(n) == [kind |-> "return", count |-> n]
ReturnScore(x) == [kind |-> "return", score |-> x]
ReturnFrame(rows) == [kind |-> "return", frame |-> rows]
ReturnStores(rows) == [kind |-> "return", stores |-> rows]
Raise(error) == [kind |-> "raise", error |-> error]

(***************************************************************************)
(* Operations.  A call is made when the engine is idle (call = None); the  *)
(* action records its arguments and what it returns or raises.             *)
(***************************************************************************)
\* DataProcessor.__init__(product_df, sale_df)
Construct(pdf, sdf) ==
    /\ product_df = pdf
    /\ sale_df = sdf
    /\ call = None
    /\ ret = None

\* df[col] raises KeyError for one of the columns cols
lacks(df, cols) == ~(cols \subseteq df.columns)

\* set_dataframes, run without another call in between (lines 35-36)
SetDataframes(pframes, sframes) ==
    /\ call = None
    /\ setter = None
    /\ \E pdf \in pframes, sdf \in sframes :
          /\ product_df' = pdf
          /\ sale_df' = sdf
    /\ UNCHANGED <<call, ret, setter, db>>

CountMarketActors(ranges) ==
    /\ call = None
    /\ \E c \in Cats, rg \in ranges :
          /\ call' = [op |-> "count_market_actors_by_category", category_id |-> c,
                      start_date |-> rg[1], end_date |-> rg[2]]
          /\ ret' = IF product_df # None /\ lacks(product_df, {"cat_id", "fab_id"})
                    THEN Raise("KeyError")
                    ELSE ReturnCount(count_market_actors_by_category(product_df, c, rg[1], rg[2]))
    /\ UNCHANGED <<product_df, sale_df, setter, db>>

AvgProducts(ranges) ==
    /\ call = None
    /\ \E c \in Cats, rg \in ranges :
          /\ call' = [op |-> "avg_products_per_manufacturer_by_category", category_id |-> c,
                      start_date |-> rg[1], end_date |-> rg[2]]
          /\ ret' = IF product_df # None /\ lacks(product_df, {"cat_id"})
                    THEN Raise("KeyError")
                    ELSE ReturnScore(avg_products_per_manufacturer_by_category(
                                         product_df, c, rg[1], rg[2]))
    /\ UNCHANGED <<product_df, sale_df, setter, db>>

ShareInCategory(ranges) ==
    /\ call = None
    /\ \E m \in Fabs, c \in Cats, rg \in ranges :
          /\ call' = [op |-> "manufacturer_share_in_category",
                      manufacturer_id |-> m, category_id |-> c,
                      start_date |-> rg[1], end_date |-> rg[2]]
          /\ ret' = IF product_df # None /\ lacks(product_df, {"cat_id"})
                    THEN Raise("KeyError")
                    ELSE ReturnScore(manufacturer_share_in_category(
                                         product_df, m, c, rg[1], rg[2]))
    /\ UNCHANGED <<product_df, sale_df, setter, db>>

ProductsInCategory(ranges) ==
    /\ call = None
    /\ \E m \in Fabs, c \in Cats, rg \in ranges :
          /\ call' = [op |-> "manufacturer_products_in_category",
                      manufacturer_id |-> m, category_id |-> c,
                      start_date |-> rg[1], end_date |-> rg[2]]
          /\ ret' = IF product_df # None /\ lacks(product_df, {"cat_id", "fab_id", "prod_id"})
                    THEN Raise("KeyError")
                    ELSE ReturnCount(manufacturer_products_in_category(
                                         product_df, m, c, rg[1], rg[2]))
    /\ UNCHANGED <<product_df, sale_df, setter, db>>

TopStores ==
    /\ call = None
    /\ \E n \in StoreCounts :
          /\ call' = [op |-> "top_stores", n |-> n]
          /\ ret' = IF sale_df = None THEN Raise("ValueError")
                    ELSE IF lacks(sale_df, {"mag_id"}) THEN Raise("KeyError")
                    ELSE ReturnStores(top_stores(sale_df, n))
    /\ UNCHANGED <<product_df, sale_df, setter, db>>

\* what manufacturer_health_score returns or raises on the tables it reads
health_score_result(pdf, sdf, m, c, start_date, end_date, n) ==
    IF /\ pdf # None /\ sdf # None
       /\ ~empty(DateFilter(add_date_column(sdf), add_date_column(sdf),
                            start_date, end_date))
       /\ lacks(pdf, {"cat_id", "fab_id"})
    THEN Raise("KeyError")
    ELSE ReturnScore(manufacturer_health_score(pdf, sdf, m, c, start_date, end_date, n))

HealthScore(ranges) ==
    /\ call = None
    /\ \E m \in Fabs, c \in Cats, n \in TopNs, rg \in ranges :
          /\ call' = [op |-> "manufacturer_health_score",
                      manufacturer_id |-> m, category_id |-> c,
                      start_date |-> rg[1], end_date |-> rg[2], top_n_stores |-> n]
          /\ ret' = health_score_result(product_df, sale_df, m, c, rg[1], rg[2], n)
    /\ UNCHANGED <<product_df, sale_df, setter, db>>

MarketActorsOverTime ==
    /\ call = None
    /\ \E c \in Cats, freq \in Freqs, start \in Starts :
          \E end \in Ends(start, freq) :
             LET raised ==
                     IF product_df = None THEN Raise("ValueError")
                     ELSE IF lacks(product_df, {"date_id"}) THEN Raise("KeyError")
                     ELSE IF \E i \in DOMAIN product_df.rows :
                                ~Decodable(product_df.rows[i].date_id)
                     THEN Raise("ValueError")
                     ELSE IF lacks(product_df, {"cat_id"}) THEN Raise("KeyError")
                     ELSE None
             IN  /\ call' = [op |-> "market_actors_over_time", category_id |-> c,
                             start_date |-> start, end_date |-> end, freq |-> freq]
                 /\ ret' = IF raised # None THEN raised
                           ELSE ReturnFrame(market_actors_over_time(
                                                product_df, c, start, end, freq))
                 /\ product_df' =
                       IF raised # None THEN product_df
                       ELSE product_df_after_market_actors_over_time(product_df)
    /\ UNCHANGED <<sale_df, setter, db>>

HealthScoreOverTime ==
    /\ call = None
    /\ \E m \in Fabs, c \in Cats, n \in TopNs, freq \in Freqs, start \in Starts :
          \E end \in Ends(start, freq) :
             LET raised ==
                     IF sale_df = None THEN Raise("AttributeError")
                     ELSE IF "date_formatted" \notin sale_df.columns
                             /\ lacks(sale_df, {"date_id"})
                     THEN Raise("KeyError")
                     ELSE IF /\ "date_formatted" \notin sale_df.columns
                             /\ \E i \in DOMAIN sale_df.rows :
                                   ~Decodable(sale_df.rows[i].date_id)
                     THEN Raise("ValueError")
                     ELSE None
             IN  /\ call' = [op |-> "manufacturer_health_score_over_time",
                             manufacturer_id |-> m, category_id |-> c,
                             start_date |-> start, end_date |-> end,
                             top_n_stores |-> n, freq |-> freq]
                 /\ ret' = IF raised # None THEN raised
                           ELSE ReturnFrame(manufacturer_health_score_over_time(
                                                sale_df, m, c, start, end, n, freq))
                 /\ sale_df' =
                       IF raised # None THEN sale_df
                       ELSE sale_df_after_health_score_over_time(sale_df)
    /\ UNCHANGED <<product_df, setter, db>>

AvgProductsInDiscountPeriod ==
    /\ call = None
    /\ \E c \in Cats, is_winter \in BOOLEAN, year \in Years :
          /\ call' = [op |-> "avg_products_in_discount_period", category_id |-> c,
                      is_winter |-> is_winter, year |-> year]
          /\ ret' = IF /\ product_df # None
                       /\ date_col(add_date_column(product_df)) \in product_df.columns
                       /\ lacks(product_df, {"cat_id"})
                    THEN Raise("KeyError")
                    ELSE ReturnScore(avg_products_in_discount_period(
                                         product_df, c, is_winter, year))
    /\ product_df' = argument_after_add_date_column(product_df)
    /\ UNCHANGED <<sale_df, setter, db>>

TopStoresInDiscountPeriod ==
    /\ call = None
    /\ \E c \in Cats \cup {NoCategory}, n \in StoreCounts,
          is_winter \in BOOLEAN, year \in Years :
          /\ call' = [op |-> "top_stores_in_discount_period", category_id |-> c,
                      n |-> n, is_winter |-> is_winter, year |-> year]
          /\ ret' = ReturnStores(top_stores_in_discount_period(
                                     sale_df, c, n, is_winter, year))
    /\ sale_df' = argument_after_add_date_column(sale_df)
    /\ UNCHANGED <<product_df, setter, db>>

\* the caller takes the result; the engine is idle again
Returned ==
    /\ call # None
    /\ ret # None
    /\ call' = None
    /\ ret' = None
    /\ UNCHANGED <<product_df, sale_df, setter, db>>

(***************************************************************************)
(* set_dataframes and manufacturer_health_score called from two threads    *)
(* on one engine: each read or write of an attribute of self is one step.  *)
(* setter is the thread that calls set_dataframes: where it stands and the *)
(* snapshots handed to the engine so far, the constructor's first.         *)
(***************************************************************************)
\* line 35: self.product_df = product_df
AssignProductDf(pframes, sframes) ==
    /\ setter # None
    /\ setter.pc = "idle"
    /\ Len(setter.snapshots) <= MaxSwaps
    /\ \E pdf \in pframes, sdf \in sframes :
          /\ product_df' = pdf
          /\ setter' = [pc |-> "line36",
                        snapshots |-> Append(setter.snapshots, <<pdf, sdf>>)]
    /\ UNCHANGED <<sale_df, call, ret, db>>

\* line 36: self.sale_df = sale_df
AssignSaleDf ==
    /\ setter # None
    /\ setter.pc = "line36"
    /\ sale_df' = setter.snapshots[Len(setter.snapshots)][2]
    /\ setter' = [setter EXCEPT !.pc = "idle"]
    /\ UNCHANGED <<product_df, call, ret, db>>

\* lines 226-242: the None tests, then self.sale_df is read and filtered
HealthScoreReadSales ==
    /\ setter # None
    /\ call = None
    /\ \E m \in Fabs, c \in Cats, n \in TopNs :
          LET returns == sale_df = None \/ product_df = None \/ empty(sale_df)
          IN  /\ call' = [op |-> "manufacturer_health_score",
                          manufacturer_id |-> m, category_id |-> c,
                          start_date |-> NoDate, end_date |-> NoDate,
                          top_n_stores |-> n,
                          pc |-> IF returns THEN "done" ELSE "line245",
                          sales |-> sale_df, products |-> None]
              /\ ret' = IF returns THEN ReturnScore(Zero) ELSE None
    /\ UNCHANGED <<product_df, sale_df, setter, db>>

\* lines 245-287: self.product_df is read, then the score is computed
HealthScoreReadProducts ==
    /\ setter # None
    /\ call # None
    /\ call.pc = "line245"
    /\ call' = [call EXCEPT !.pc = "done", !.products = product_df]
    /\ ret' = health_score_result(product_df, call.sales, call.manufacturer_id,
                                  call.category_id, NoDate, NoDate, call.top_n_stores)
    /\ UNCHANGED <<product_df, sale_df, setter, db>>

(***************************************************************************)
(* Persistence (src/src/db_handler.py, class PostgresHandler).             *)
(*                                                                         *)
(* A table is the sequence of its rows in insertion order.  A log of the   *)
(* API is a dict, here a record whose DOMAIN is the set of its keys.  The  *)
(* string 'YYYY-MM-DD' is the triple <<year, month, day>> and the SQL NULL *)
(* of date_formatted is the empty tuple.                                   *)
(***************************************************************************)
ProductKeys == {"logID", "prodID", "catID", "fabID", "dateID"}
SaleKeys == {"logID", "prodID", "catID", "fabID", "magID", "dateID"}

ProductTableColumns == {"log_id", "prod_id", "cat_id", "fab_id", "date_id", "date_formatted"}
SaleTableColumns == ProductTableColumns \cup {"mag_id"}

RECURSIVE DigitCount(_)
\* len(str(n)) for n >= 0
DigitCount(n) == IF n < 10 THEN 1 ELSE 1 + DigitCount(n \div 10)

NullDate == <<>>

\* _format_date_from_id: None unless str(date_id) has 8 characters, then
\* f"{year}-{month:02d}-{day:02d}" of its three slices
format_date_from_id(date_id) ==
    IF DigitCount(date_id) # 8 THEN NullDate
    ELSE <<date_id \div 10000, (date_id \div 100) % 100, date_id % 100>>

\* the record built from a product log (lines 379-386)
product_record(data) ==
    [log_id |-> data.logID, prod_id |-> data.prodID, cat_id |-> data.catID,
     fab_id |-> data.fabID, date_id |-> data.dateID,
     date_formatted |-> format_date_from_id(data.dateID)]

\* the record built from a sale log (lines 449-457)
sale_record(data) ==
    [log_id |-> data.logID, prod_id |-> data.prodID, cat_id |-> data.catID,
     fab_id |-> data.fabID, mag_id |-> data.magID, date_id |-> data.dateID,
     date_formatted |-> format_date_from_id(data.dateID)]

\* log ids of the rows of a table or of a frame to insert
LogIdsOf(rows) == {rows[i].log_id : i \in DOMAIN rows}

\* PRIMARY KEY (log_id): the rows cannot be added to the table
violates_primary_key(table, values) ==
    \/ \E i \in DOMAIN values : values[i].log_id \in LogIdsOf(table)
    \/ \E i, j \in DOMAIN values : i # j /\ values[i].log_id = values[j].log_id

\* the rows added whatever the query and whatever the table holds
execute_values_without_key(table, placeholders, values) ==
    [error |-> "", table |-> table \o values]

\* psycopg2.extras.execute_values(cursor, insert_query, values): the query must
\* hold a single %s, which the VALUES list replaces; insert_query holds one %s
\* per column (values_template, lines 208-209), so with more than one column the
\* call raises ValueError before any statement is sent.  With a single %s the
\* rows are inserted unless the primary key rejects them.
execute_values(table, placeholders, values) ==
    IF placeholders # 1 THEN [error |-> "ValueError", table |-> table]
    ELSE IF violates_primary_key(table, values)
         THEN [error |-> "UniqueViolation", table |-> table]
         ELSE [error |-> "", table |-> table \o values]

DbReturn(n, table) == [kind |-> "return", count |-> n, error |-> "", table |-> table]
DbRaise(e, table) == [kind |-> "raise", count |-> 0, error |-> e, table |-> table]

\* insert_dataframe: one batch (the lists of the model are shorter than
\* batch_size = 1000); commit on success, rollback and re-raise on failure
insert_dataframe(table, columns, df) ==
    IF df = <<>> THEN DbReturn(0, table)
    ELSE LET done == execute_values(table, Cardinality(columns), df)
         IN  IF done.error # "" THEN DbRaise(done.error, table)
             ELSE DbReturn(Len(df), done.table)

\* no stored log id found
existing_log_ids_none(table, log_ids) == {}

\* SELECT log_id FROM <table> WHERE log_id IN (log_ids)
existing_log_ids(table, log_ids) == LogIdsOf(table) \cap log_ids

\* the stored rows overwritten by the records of the same log_id
import_insert_data_replacing(table, columns, insert_data) ==
    DbReturn(Len(insert_data),
             [i \in DOMAIN table |->
                 IF \E k \in DOMAIN insert_data : insert_data[k].log_id = table[i].log_id
                 THEN insert_data[CHOOSE k \in DOMAIN insert_data :
                                     insert_data[k].log_id = table[i].log_id]
                 ELSE table[i]])

\* lines 393-421 (464-492): the frame of the records, without those whose
\* log_id is stored already, is inserted
import_insert_data(table, columns, insert_data) ==
    IF insert_data = <<>> THEN DbReturn(0, table)
    ELSE LET existing == existing_log_ids(table, LogIdsOf(insert_data))
             df == SelectSeq(insert_data, LAMBDA r : r.log_id \notin existing)
         IN  IF df = <<>> THEN DbReturn(0, table)
             ELSE insert_dataframe(table, columns, df)

\* the logs that carry every required key, in order
with_required_keys(data_list, required_keys) ==
    SelectSeq(data_list, LAMBDA data : required_keys \subseteq DOMAIN data)

import_products_data(table, data_list) ==
    IF data_list = <<>> THEN DbReturn(0, table)
    ELSE LET complete == with_required_keys(data_list, ProductKeys)
             insert_data == [i \in DOMAIN complete |-> product_record(complete[i])]
         IN  import_insert_data(table, ProductTableColumns, insert_data)

import_sales_data(table, data_list) ==
    IF data_list = <<>> THEN DbReturn(0, table)
    ELSE LET complete == with_required_keys(data_list, SaleKeys)
             insert_data == [i \in DOMAIN complete |-> sale_record(complete[i])]
         IN  import_insert_data(table, SaleTableColumns, insert_data)

\* what the caller of an import sees
Imported(op, data_list, done) ==
    [op |-> op, data_list |-> data_list, kind |-> done.kind,
     count |-> done.count, error |-> done.error]

ImportProductsData(lists) ==
    /\ imported = None /\ loader = None
    /\ \E data_list \in lists :
          LET done == import_products_data(products_table, data_list)
          IN  /\ products_table' = done.table
              /\ imported' = Imported("import_products_data", data_list, done)
    /\ UNCHANGED <<sales_table, loader, engine>>

ImportSalesData(lists) ==
    /\ imported = None /\ loader = None
    /\ \E data_list \in lists :
          LET done == import_sales_data(sales_table, data_list)
          IN  /\ sales_table' = done.table
              /\ imported' = Imported("import_sales_data", data_list, done)
    /\ UNCHANGED <<products_table, loader, engine>>

\* the caller goes on (data_loader.py lines 123-125, 139-141)
ImportReturned ==
    /\ imported # None /\ loader = None
    /\ imported' = None
    /\ UNCHANGED <<products_table, sales_table, loader, engine>>

(***************************************************************************)
(* import_api_data (db_handler.py lines 234-281) and load_data_from_api    *)
(* (data_loader.py lines 15-87): the same loop over batches of log ids.    *)
(* loader is the position of the loop: the ranges fetched so far, and the  *)
(* ids for which the API answers a product or a sale log.                  *)
(***************************************************************************)
\* the log the API answers for an id
ApiProductLog(id) ==
    [logID |-> id, prodID |-> 101, catID |-> 5, fabID |-> 1, dateID |-> 20220101]
ApiSaleLog(id) ==
    [logID |-> id, prodID |-> 101, catID |-> 5, fabID |-> 1, magID |-> 10,
     dateID |-> 20220101]

\* the ids of a set by ascending order
AscendingIds(S) ==
    CHOOSE f \in [1..Cardinality(S) -> S] : \A i, j \in 1..Cardinality(S) : i < j => f[i] < f[j]

\* get_multiple_product_logs(start_id, end_id): the logs answered for the ids
\* of range(start_id, end_id + 1), in order (api_client.py lines 71-95)
get_multiple_product_logs(answered, start_id, end_id) ==
    LET ids == AscendingIds(answered \cap start_id..end_id)
    IN  [i \in DOMAIN ids |-> ApiProductLog(ids[i])]

get_multiple_sale_logs(answered, start_id, end_id) ==
    LET ids == AscendingIds(answered \cap start_id..end_id)
    IN  [i \in DOMAIN ids |-> ApiSaleLog(ids[i])]

Min(a, b) == IF a <= b THEN a ELSE b

\* (max_records + batch_size - 1) // batch_size
num_batches(batch_size, max_records) == (max_records + batch_size - 1) \div batch_size

\* the call, up to the first test of the for loop
ImportApiData(batch_sizes, record_limits) ==
    /\ loader = None /\ imported = None
    /\ \E batch_size \in batch_sizes, max_records \in record_limits,
          product_ids \in SUBSET (1..MaxRecords), sale_ids \in SUBSET (1..MaxRecords) :
          loader' = [pc |-> IF num_batches(batch_size, max_records) = 0
                            THEN "returned" ELSE "loop",
                     batch_size |-> batch_size, max_records |-> max_records,
                     batch |-> 0, ranges |-> <<>>,
                     product_ids |-> product_ids, sale_ids |-> sale_ids,
                     total_products |-> 0, total_sales |-> 0]
    /\ UNCHANGED <<products_table, sales_table, imported, engine>>

\* one pass of the loop body (lines 249-279): fetch and import the products,
\* fetch and import the sales, break when both fetches were empty; an import
\* that raises ends the call
ImportApiBatch ==
    /\ loader # None
    /\ loader.pc = "loop"
    /\ LET batch == loader.batch + 1
           start_id == (batch - 1) * loader.batch_size + 1
           end_id == Min(batch * loader.batch_size, loader.max_records)
           product_logs == get_multiple_product_logs(loader.product_ids, start_id, end_id)
           products_done == IF product_logs # <<>>
                            THEN import_products_data(products_table, product_logs)
                            ELSE DbReturn(0, products_table)
           sale_logs == get_multiple_sale_logs(loader.sale_ids, start_id, end_id)
           sales_done == IF sale_logs # <<>>
                         THEN import_sales_data(sales_table, sale_logs)
                         ELSE DbReturn(0, sales_table)
           fetched == [loader EXCEPT !.batch = batch,
                                     !.ranges = Append(@, <<start_id, end_id>>)]
       IN  IF products_done.kind = "raise"
           THEN /\ loader' = [fetched EXCEPT !.pc = "raised"]
                /\ UNCHANGED <<products_table, sales_table>>
           ELSE IF sales_done.kind = "raise"
           THEN /\ loader' = [fetched EXCEPT !.pc = "raised",
                                             !.total_products = @ + products_done.count]
                /\ products_table' = products_done.table
                /\ UNCHANGED sales_table
           ELSE /\ loader' = [fetched EXCEPT
                                 !.pc = IF (product_logs = <<>> /\ sale_logs = <<>>)
                                           \/ batch = num_batches(loader.batch_size,
                                                                  loader.max_records)
                                        THEN "returned" ELSE "loop",
                                 !.total_products = @ + products_done.count,
                                 !.total_sales = @ + sales_done.count]
                /\ products_table' = products_done.table
                /\ sales_table' = sales_done.table
    /\ UNCHANGED <<imported, engine>>

(***************************************************************************)
(* Specifications                                                          *)
(***************************************************************************)
\* pd.DataFrame(): what the loaders return for a table without row
\* (db_handler.py:314, dashboard.py:251)
EmptyFrame == [columns |-> {}, rows |-> <<>>]

\* The engine of the dashboard: built empty (dashboard.py:108), then loaded
\* from the database (with date_formatted) or from CSV files (dashboard.py:143,
\* the columns of the file).
LoadDateIds == {20220102, 20220131}
LoadProductFrames ==
    ProductFrames({101}, LoadDateIds, 1, TRUE)
        \cup ProductFrames({101}, LoadDateIds, 1, FALSE) \cup {EmptyFrame}
LoadSaleFrames ==
    SaleFrames({101}, LoadDateIds, 1, TRUE)
        \cup SaleFrames({101}, LoadDateIds, 1, FALSE) \cup {EmptyFrame}
LoadRanges == {NoRange} \cup RangesOf(LoadDateIds)

\* no importer runs beside the engine
NoDatabase == products_table = <<>> /\ sales_table = <<>> /\ imported = None /\ loader = None

Init == Construct(None, None) /\ setter = None /\ NoDatabase

Next ==
    \/ SetDataframes(LoadProductFrames, LoadSaleFrames)
    \/ CountMarketActors(LoadRanges)
    \/ AvgProducts(LoadRanges)
    \/ ShareInCategory(LoadRanges)
    \/ ProductsInCategory(LoadRanges)
    \/ TopStores
    \/ HealthScore(LoadRanges)
    \/ MarketActorsOverTime
    \/ HealthScoreOverTime
    \/ AvgProductsInDiscountPeriod
    \/ TopStoresInDiscountPeriod
    \/ Returned

Spec == Init /\ [][Next]_vars

\* Queries on the product table alone: DataProcessor(product_df).
InitActors ==
    /\ \E pdf \in ProductFrames(Prods, DateIds, MaxProducts, FALSE) : Construct(pdf, None)
    /\ setter = None
    /\ NoDatabase

NextActors ==
    \/ CountMarketActors({NoRange})
    \/ AvgProducts({NoRange})
    \/ ShareInCategory({NoRange})
    \/ ProductsInCategory({NoRange})
    \/ MarketActorsOverTime
    \/ Returned

SpecActors == InitActors /\ [][NextActors]_vars

\* The ranking of the stores: DataProcessor(None, sale_df).
InitStores ==
    /\ \E sdf \in SaleFrames({101}, {20220101}, MaxSales, FALSE) : Construct(None, sdf)
    /\ setter = None
    /\ NoDatabase

NextStores ==
    \/ TopStores
    \/ Returned

SpecStores == InitStores /\ [][NextStores]_vars

\* The health score without a date range: DataProcessor(product_df, sale_df).
InitHealth ==
    /\ \E pdf \in ProductFrames({101}, {20220101}, MaxProducts, FALSE),
          sdf \in SaleFrames(Prods, {20220101}, MaxSales, FALSE) : Construct(pdf, sdf)
    /\ setter = None
    /\ NoDatabase

NextHealth ==
    \/ HealthScore({NoRange})
    \/ Returned

SpecHealth == InitHealth /\ [][NextHealth]_vars

\* The health score over a date range and over time, on frames read from the
\* database (with date_formatted).
WindowDateIds == {20220102, 20220131}

InitWindow ==
    /\ \E pdf \in ProductFrames({101}, WindowDateIds, 1, TRUE),
          sdf \in SaleFrames({101}, WindowDateIds, MaxWindowSales, TRUE) :
             Construct(pdf, sdf)
    /\ setter = None
    /\ NoDatabase

NextWindow ==
    \/ HealthScore(RangesOf(WindowDateIds))
    \/ HealthScoreOverTime
    \/ Returned

SpecWindow == InitWindow /\ [][NextWindow]_vars

\* One thread replaces the snapshot while another asks for a health score.
SwapProductFrames == ProductFrames({101}, {20220101}, 1, FALSE)
SwapSaleFrames == SaleFrames({101}, {20220101}, 1, FALSE)

InitSwap ==
    \E pdf \in SwapProductFrames, sdf \in SwapSaleFrames :
        /\ Construct(pdf, sdf)
        /\ setter = [pc |-> "idle", snapshots |-> <<<<pdf, sdf>>>>]
        /\ NoDatabase

NextSwap ==
    \/ AssignProductDf(SwapProductFrames, SwapSaleFrames)
    \/ AssignSaleDf
    \/ HealthScoreReadSales
    \/ HealthScoreReadProducts
    \/ Returned

SpecSwap == InitSwap /\ [][NextSwap]_vars

\* Imports into the database, once initialize_database has created the tables:
\* the rows found there satisfy PRIMARY KEY (log_id).
ApiProdIds == {101, 102}
ApiDateIds == {20220101, 101}

ApiProductLogs ==
    [logID : 1..MaxLogId, prodID : ApiProdIds, catID : {5}, fabID : {1}, dateID : ApiDateIds]
        \cup [logID : 1..MaxLogId, prodID : {101}, catID : {5}, fabID : {1}]

ApiSaleLogs ==
    [logID : 1..MaxLogId, prodID : ApiProdIds, catID : {5}, fabID : {1}, magID : {10},
     dateID : ApiDateIds]
        \cup [logID : 1..MaxLogId, prodID : {101}, catID : {5}, fabID : {1}, dateID : {20220101}]

\* the lists of at most MaxList logs
ListsOf(logs) == UNION {[1..n -> logs] : n \in 0..MaxList}

\* the tables that hold some of the rows, by ascending log_id
TablesOf(rows) ==
    {t \in UNION {[1..n -> rows] : n \in 0..MaxLogId} :
        \A i, j \in DOMAIN t : i < j => t[i].log_id < t[j].log_id}

StoredProducts ==
    TablesOf({product_record(data) : data \in {d \in ApiProductLogs :
                 ProductKeys \subseteq DOMAIN d /\ d.dateID = 20220101}})
StoredSales ==
    TablesOf({sale_record(data) : data \in {d \in ApiSaleLogs :
                 SaleKeys \subseteq DOMAIN d /\ d.dateID = 20220101 /\ d.prodID = 101}})

InitImport ==
    /\ Construct(None, None)
    /\ setter = None
    /\ products_table \in StoredProducts
    /\ sales_table \in StoredSales
    /\ imported = None
    /\ loader = None

NextImport ==
    \/ ImportProductsData(ListsOf(ApiProductLogs))
    \/ ImportSalesData(ListsOf(ApiSaleLogs))
    \/ ImportReturned

SpecImport == InitImport /\ [][NextImport]_vars

\* Snapshots with a date_id that is no calendar date (month 13).
UndecodableDateIds == {20220120, 20221301}

InitUndecodable ==
    /\ \E pdf \in ProductFrames({101}, UndecodableDateIds, MaxProducts, FALSE),
          sdf \in SaleFrames({101}, UndecodableDateIds, 1, FALSE) : Construct(pdf, sdf)
    /\ setter = None
    /\ NoDatabase

NextUndecodable ==
    \/ CountMarketActors({NoRange} \cup RangesOf({20220120}))
    \/ MarketActorsOverTime
    \/ HealthScoreOverTime
    \/ AvgProductsInDiscountPeriod
    \/ TopStoresInDiscountPeriod
    \/ Returned

SpecUndecodable == InitUndecodable /\ [][NextUndecodable]_vars

\* The two products and the one sale agreement of the end-to-end scenario.
ScenarioProducts ==
    Frame(ProductColumns,
          <<[prod_id |-> 101, cat_id |-> 5, fab_id |-> 1, date_id |-> 20220101],
            [prod_id |-> 102, cat_id |-> 5, fab_id |-> 2, date_id |-> 20220102]>>,
          FALSE)
ScenarioSales ==
    Frame(SaleColumns,
          <<[prod_id |-> 101, cat_id |-> 5, fab_id |-> 1, mag_id |-> 10,
             date_id |-> 20220101]>>,
          FALSE)

InitScenario ==
    /\ Construct(ScenarioProducts, ScenarioSales)
    /\ setter = None
    /\ NoDatabase

NextScenario ==
    \/ CountMarketActors({NoRange})
    \/ AvgProducts({NoRange})
    \/ TopStores
    \/ HealthScore({NoRange})
    \/ MarketActorsOverTime
    \/ HealthScoreOverTime
    \/ Returned

SpecScenario == InitScenario /\ [][NextScenario]_vars

\* Range queries called with no bound, one bound or both, on tables that carry
\* date_formatted.
BoundDateIds == {20220102, 20220131}

BoundRanges ==
    {NoRange} \cup RangesOf(BoundDateIds)
        \cup {<<to_datetime(d), NoDate>> : d \in BoundDateIds}
        \cup {<<NoDate, to_datetime(d)>> : d \in BoundDateIds}

InitBounds ==
    /\ \E pdf \in ProductFrames({101}, BoundDateIds, 1, TRUE),
          sdf \in SaleFrames({101}, BoundDateIds, 1, TRUE) : Construct(pdf, sdf)
    /\ setter = None
    /\ NoDatabase

NextBounds ==
    \/ CountMarketActors(BoundRanges)
    \/ AvgProducts(BoundRanges)
    \/ ShareInCategory(BoundRanges)
    \/ ProductsInCategory(BoundRanges)
    \/ HealthScore(BoundRanges)
    \/ Returned

SpecBounds == InitBounds /\ [][NextBounds]_vars

\* The loader run on a database that holds some of the logs of the API.
BatchSizes == 1..MaxBatchSize
RecordLimits == 0..MaxRecords

StoredApiProducts ==
    {[i \in DOMAIN AscendingIds(S) |-> product_record(ApiProductLog(AscendingIds(S)[i]))] :
        S \in SUBSET (1..MaxRecords)}
StoredApiSales ==
    {[i \in DOMAIN AscendingIds(S) |-> sale_record(ApiSaleLog(AscendingIds(S)[i]))] :
        S \in SUBSET (1..MaxRecords)}

InitLoader ==
    /\ Construct(None, None)
    /\ setter = None
    /\ products_table \in StoredApiProducts
    /\ sales_table \in StoredApiSales
    /\ imported = None
    /\ loader = None

NextLoader ==
    \/ ImportApiData(BatchSizes, RecordLimits)
    \/ ImportApiBatch

SpecLoader == InitLoader /\ [][NextLoader]_vars

(***************************************************************************)
(* Properties                                                              *)
(***************************************************************************)
Called(op) == call # None /\ call.op = op
Returns == ret # None /\ ret.kind = "return"
Unranged == call.start_date = NoDate /\ call.end_date = NoDate

\* the rows of a frame as a set of indices satisfying a test
Rows(df, Test(_)) == {i \in DOMAIN df.rows : Test(df.rows[i])}

SalesOf(m, c) == Rows(sale_df, LAMBDA r : r.fab_id = m /\ r.cat_id = c)

\* C2: manufacturer_health_score(m, c) is 0.0 whenever
\* manufacturer_products_in_category(m, c) is 0, whatever sale records exist
\* for m in category c.
C2_AbsentMeansZero ==
    (/\ Called("manufacturer_health_score") /\ Unranged
     /\ manufacturer_products_in_category(product_df, call.manufacturer_id,
                                          call.category_id, NoDate, NoDate) = 0)
        => (Returns /\ ret.score = Zero)

\* C2 witness: the manufacturer has no product in the category, yet it has sale
\* records there and another manufacturer has products there
C2_Witness ==
    /\ Called("manufacturer_health_score") /\ Unranged
    /\ manufacturer_products_in_category(product_df, call.manufacturer_id,
                                         call.category_id, NoDate, NoDate) = 0
    /\ SalesOf(call.manufacturer_id, call.category_id) # {}
    /\ Rows(product_df, LAMBDA r : r.cat_id = call.category_id) # {}
    /\ ret.score = Zero

\* The mean the health score is specified to be, over a set T of stores:
\* sub-score of a store = distinct products of m sold there in category c over
\* distinct products sold there in category c, 0 if none is sold there.
SoldIn(store, c) ==
    {sale_df.rows[i].prod_id : i \in Rows(sale_df, LAMBDA r : r.mag_id = store /\ r.cat_id = c)}
SoldInBy(store, c, m) ==
    {sale_df.rows[i].prod_id :
        i \in Rows(sale_df, LAMBDA r : r.mag_id = store /\ r.cat_id = c /\ r.fab_id = m)}
SubScore(store, c, m) ==
    IF SoldIn(store, c) = {} THEN Zero
    ELSE Rat(Cardinality(SoldInBy(store, c, m)), Cardinality(SoldIn(store, c)))

RECURSIVE SubScoreSum(_, _, _)
SubScoreSum(T, c, m) ==
    IF T = {} THEN Zero
    ELSE LET st == CHOOSE x \in T : TRUE
         IN  RatAdd(SubScore(st, c, m), SubScoreSum(T \ {st}, c, m))

MeanOver(T, c, m) ==
    IF T = {} THEN Zero
    ELSE LET t == SubScoreSum(T, c, m) IN Rat(t[1], t[2] * Cardinality(T))

Stores == {sale_df.rows[i].mag_id : i \in DOMAIN sale_df.rows}
Agreements(store) == Cardinality(Rows(sale_df, LAMBDA r : r.mag_id = store))

\* the sets of top stores by agreement count: min(n, number of stores) stores,
\* none of them with fewer agreements than a store left out
TopSets(n) ==
    {T \in SUBSET Stores :
        /\ Cardinality(T) = (IF n < Cardinality(Stores) THEN n ELSE Cardinality(Stores))
        /\ \A st \in T, u \in Stores \ T : Agreements(st) >= Agreements(u)}

IsMeanOfTopStores ==
    \E T \in TopSets(call.top_n_stores) :
        ret.score = MeanOver(T, call.category_id, call.manufacturer_id)

HasProducts ==
    Rows(product_df, LAMBDA r : /\ r.cat_id = call.category_id
                                /\ r.fab_id = call.manufacturer_id) # {}

C4_ScoreInUnitInterval ==
    (Called("manufacturer_health_score") /\ call.top_n_stores >= 1) =>
        /\ Returns
        /\ RatLeq(Zero, ret.score)
        /\ RatLeq(ret.score, One)
        /\ ret.score[2] > 0

\* C4 witness: a score of exactly 1 although the manufacturer's product is sold
\* twice in the same store
C4_Witness ==
    /\ Called("manufacturer_health_score")
    /\ call.top_n_stores >= 1
    /\ HasProducts
    /\ ret.score = One
    /\ \E i, j \in DOMAIN sale_df.rows :
          /\ i # j
          /\ sale_df.rows[i].mag_id = sale_df.rows[j].mag_id
          /\ sale_df.rows[i].prod_id = sale_df.rows[j].prod_id
          /\ sale_df.rows[i].cat_id = call.category_id
          /\ sale_df.rows[j].cat_id = call.category_id

\* C5: with a date range, the health score is 0.0 when the manufacturer has no
\* product record of the category dated within the range, even if it has some
\* outside the range.
C5_ZeroWithoutProductInRange ==
    (/\ Called("manufacturer_health_score") /\ ~Unranged
     /\ Rows(product_df, LAMBDA r : /\ r.cat_id = call.category_id
                                    /\ r.fab_id = call.manufacturer_id
                                    /\ to_datetime(r.date_id) >= call.start_date
                                    /\ to_datetime(r.date_id) <= call.end_date) = {})
        => (Returns /\ ret.score = Zero)

\* the sale records dated within a period <<first, last>>, both included
SalesWithin(period) ==
    Where(sale_df, {r \in RowsOf(sale_df) :
                       /\ to_datetime(r.date_id) >= period[1]
                       /\ to_datetime(r.date_id) <= period[2]})

\* C6: each period's score of manufacturer_health_score_over_time is what
\* manufacturer_health_score returns on the sale records of that period only
\* (same product-presence check, same ranking by all agreements of the period,
\* same sub-scores, same mean).
C6_PeriodScoreIsHealthScore ==
    (Called("manufacturer_health_score_over_time") /\ Returns) =>
        LET periods == health_periods(call.start_date, call.end_date, call.freq)
        IN  /\ Len(ret.frame) = Len(periods)
            /\ \A i \in DOMAIN ret.frame :
                  ret.frame[i].health_score =
                      manufacturer_health_score(product_df, SalesWithin(periods[i]),
                                                call.manufacturer_id, call.category_id,
                                                NoDate, NoDate, call.top_n_stores)

\* the days around the range of the call
DaysAround == (call.start_date - 31)..(call.end_date + 31)

\* C7: for the same start, end and granularity the health score over time has
\* the periods of market_actors_over_time: as many rows, the same period starts,
\* the same half-open extents [periodStart, periodEnd), so that no date falls
\* in two periods.
C7_SamePeriodization ==
    (Called("manufacturer_health_score_over_time") /\ Returns) =>
        LET mine == health_periods(call.start_date, call.end_date, call.freq)
            theirs == market_periods(call.start_date, call.end_date, call.freq)
        IN  /\ Len(ret.frame) = Len(theirs)
            /\ \A i \in DOMAIN ret.frame :
                  /\ ret.frame[i].period = theirs[i][1]
                  /\ \A d \in DaysAround :
                        (d >= mine[i][1] /\ d <= mine[i][2])
                            <=> (d >= theirs[i][1] /\ d < theirs[i][2])
            /\ \A i, j \in DOMAIN mine, d \in DaysAround :
                  (i # j /\ d >= mine[i][1] /\ d <= mine[i][2])
                      => ~(d >= mine[j][1] /\ d <= mine[j][2])

\* C8: the periods of market_actors_over_time, as half-open intervals, are
\* pairwise disjoint, contiguous, and every date from start through end falls
\* in exactly one of them.
C8_PeriodsPartitionRange ==
    (Called("market_actors_over_time") /\ Returns) =>
        LET periods == market_periods(call.start_date, call.end_date, call.freq)
            within(d, i) == d >= periods[i][1] /\ d < periods[i][2]
        IN  /\ \A i \in DOMAIN periods : i > 1 => periods[i - 1][2] = periods[i][1]
            /\ \A d \in DaysAround :
                  Cardinality({i \in DOMAIN periods : within(d, i)})
                      = (IF d >= call.start_date /\ d <= call.end_date THEN 1 ELSE 0)

\* the manufacturers with a product record of category c dated in [first, last)
ActorsIn(c, first, last) ==
    {f \in Fabs :
        \E i \in DOMAIN product_df.rows :
            /\ product_df.rows[i].cat_id = c
            /\ product_df.rows[i].fab_id = f
            /\ to_datetime(product_df.rows[i].date_id) >= first
            /\ to_datetime(product_df.rows[i].date_id) < last}

\* C9: market_actors_over_time returns one row per period, in period order,
\* periods without matching record included (actor_count 0); actor_count is the
\* number of distinct fab_id among the category's product records dated in
\* [periodStart, periodEnd).  The periods are the intervals between consecutive
\* dates of the date range.
C9_OneRowPerPeriod ==
    (Called("market_actors_over_time") /\ Returns) =>
        LET time_periods == date_range(call.start_date, call.end_date, call.freq)
        IN  /\ Len(ret.frame) = (IF Len(time_periods) = 0 THEN 0 ELSE Len(time_periods) - 1)
            /\ \A i \in DOMAIN ret.frame :
                  /\ ret.frame[i].period_start = time_periods[i]
                  /\ i > 1 => ret.frame[i - 1].period_start < ret.frame[i].period_start
                  /\ ret.frame[i].actor_count =
                        Cardinality(ActorsIn(call.category_id,
                                             time_periods[i], time_periods[i + 1]))

\* C9 witness: a period without actor whose end is the date of a product record
\* of the category, which the next period counts
C9_Witness ==
    /\ Called("market_actors_over_time") /\ Returns
    /\ \E i \in DOMAIN ret.frame :
          /\ i < Len(ret.frame)
          /\ ret.frame[i].actor_count = 0
          /\ ret.frame[i + 1].actor_count = 1
          /\ \E k \in DOMAIN product_df.rows :
                /\ product_df.rows[k].cat_id = call.category_id
                /\ to_datetime(product_df.rows[k].date_id) = ret.frame[i + 1].period_start

\* the sale records of category c dated from first through last
CategorySalesIn(c, first, last) ==
    Rows(sale_df, LAMBDA r : /\ r.cat_id = c
                             /\ to_datetime(r.date_id) >= first
                             /\ to_datetime(r.date_id) <= last)

\* C10: manufacturer_health_score_over_time returns a row for every period, and
\* the row of a period without sale record of the category has health_score 0.0.
C10_EmptyPeriodScoresZero ==
    (Called("manufacturer_health_score_over_time") /\ Returns) =>
        LET periods == date_range(call.start_date, call.end_date, call.freq)
        IN  /\ Len(ret.frame) = Len(periods)
            /\ \A i \in DOMAIN ret.frame :
                  /\ ret.frame[i].period = periods[i]
                  /\ CategorySalesIn(call.category_id, periods[i],
                                     health_period_end(periods[i], call.freq)) = {}
                        => ret.frame[i].health_score = Zero

\* C10 witness: a period without sale of the category, scored 0.0, after a
\* period scored 1.0
C10_Witness ==
    /\ Called("manufacturer_health_score_over_time") /\ Returns
    /\ \E i, j \in DOMAIN ret.frame :
          /\ i < j
          /\ ret.frame[i].health_score = One
          /\ ret.frame[j].health_score = Zero
          /\ CategorySalesIn(call.category_id, ret.frame[j].period,
                             health_period_end(ret.frame[j].period, call.freq)) = {}

\* the manufacturers with a product record in category c
Present(c) ==
    {product_df.rows[i].fab_id : i \in Rows(product_df, LAMBDA r : r.cat_id = c)}

\* the products listed under manufacturer m in category c
ProductsOf(m, c) ==
    {product_df.rows[i].prod_id :
        i \in Rows(product_df, LAMBDA r : r.cat_id = c /\ r.fab_id = m)}

\* the products listed in category c
ProductsIn(c) ==
    {product_df.rows[i].prod_id : i \in Rows(product_df, LAMBDA r : r.cat_id = c)}

RECURSIVE ShareSum(_, _)
ShareSum(S, c) ==
    IF S = {} THEN Zero
    ELSE LET m == CHOOSE x \in S : TRUE
         IN  RatAdd(manufacturer_share_in_category(product_df, m, c, NoDate, NoDate),
                    ShareSum(S \ {m}, c))

\* every product of category c is listed under one manufacturer only
OneManufacturerPerProduct(c) ==
    \A i, j \in Rows(product_df, LAMBDA r : r.cat_id = c) :
        product_df.rows[i].prod_id = product_df.rows[j].prod_id
            => product_df.rows[i].fab_id = product_df.rows[j].fab_id

\* C12 as stated: for every table with a product record in category c, the
\* shares of the manufacturers present in c add up to 1.
C12_Original ==
    (/\ Called("manufacturer_share_in_category") /\ Unranged /\ Returns
     /\ ProductsIn(call.category_id) # {})
        => ShareSum(Present(call.category_id), call.category_id) = One

\* C12 amended: for every table with a product record in category c in which
\* every prod_id of category c is listed under a single fab_id, the shares of
\* the manufacturers present in c add up to 1: their distinct-product counts add
\* up to the distinct-product count of the category.
C12_SharesSumToOne ==
    (/\ Called("manufacturer_share_in_category") /\ Unranged /\ Returns
     /\ ProductsIn(call.category_id) # {}
     /\ OneManufacturerPerProduct(call.category_id))
        => /\ ShareSum(Present(call.category_id), call.category_id) = One
           /\ ret.score = Rat(Cardinality(ProductsOf(call.manufacturer_id, call.category_id)),
                              Cardinality(ProductsIn(call.category_id)))

\* C12 witness: two manufacturers present in the category, one product each
C12_Witness ==
    /\ Called("manufacturer_share_in_category") /\ Unranged /\ Returns
    /\ OneManufacturerPerProduct(call.category_id)
    /\ Cardinality(Present(call.category_id)) = 2
    /\ ret.score = Rat(1, 2)
    /\ ShareSum(Present(call.category_id), call.category_id) = One

\* C13: top_stores(n) returns at most n entries, one per store, each with the
\* number of sale records of that store in the whole table, by agreement_count
\* descending.
C13_TopStoresRanked ==
    Called("top_stores") =>
        /\ Returns
        /\ Len(ret.stores) <= call.n
        /\ \A i \in DOMAIN ret.stores :
              /\ ret.stores[i].mag_id \in Stores
              /\ ret.stores[i].agreement_count = Agreements(ret.stores[i].mag_id)
        /\ \A i, j \in DOMAIN ret.stores :
              i < j => /\ ret.stores[i].agreement_count >= ret.stores[j].agreement_count
                       /\ ret.stores[i].mag_id # ret.stores[j].mag_id

\* C13 witness: two entries, the store with the most agreements first although
\* it comes second in the table
C13_Witness ==
    /\ Called("top_stores") /\ Returns
    /\ call.n = 2
    /\ Len(ret.stores) = 2
    /\ ret.stores[1].agreement_count = 2
    /\ ret.stores[2].agreement_count = 1
    /\ sale_df.rows[1].mag_id = ret.stores[2].mag_id

\* C14: top_stores(n) is the first n entries of top_stores(n + 1) on the same
\* table; stores with the same agreement count come in order of first
\* appearance in the table.
C14_TopStoresPrefix ==
    Called("top_stores") =>
        /\ Returns
        /\ ret.stores = SubSeq(top_stores(sale_df, call.n + 1), 1, Len(ret.stores))
        /\ Len(ret.stores) =
              (IF call.n < Len(top_stores(sale_df, call.n + 1))
               THEN call.n ELSE Len(top_stores(sale_df, call.n + 1)))
        /\ \A i, j \in DOMAIN ret.stores :
              (i < j /\ ret.stores[i].agreement_count = ret.stores[j].agreement_count)
                  => FirstIndex(sale_df.rows, "mag_id", ret.stores[i].mag_id)
                        < FirstIndex(sale_df.rows, "mag_id", ret.stores[j].mag_id)

\* C14 witness: two stores with one agreement each, one entry asked for: the
\* store met first in the table
C14_Witness ==
    /\ Called("top_stores") /\ Returns
    /\ call.n = 1
    /\ Cardinality(Stores) = 2
    /\ \A st \in Stores : Agreements(st) = 1
    /\ Len(ret.stores) = 1
    /\ ret.stores[1].mag_id = sale_df.rows[1].mag_id
    /\ Len(top_stores(sale_df, 2)) = 2

\* the number of distinct products listed under the manufacturers of S in c
RECURSIVE ProductCountSum(_, _)
ProductCountSum(S, c) ==
    IF S = {} THEN 0
    ELSE LET m == CHOOSE x \in S : TRUE
         IN  Cardinality(ProductsOf(m, c)) + ProductCountSum(S \ {m}, c)

RowsInRange(c) ==
    Rows(product_df, LAMBDA r : /\ r.cat_id = c
                                /\ to_datetime(r.date_id) >= call.start_date
                                /\ to_datetime(r.date_id) <= call.end_date)

\* the manufacturers, the products, and the products of manufacturer m, of the
\* records of category c dated within the range of the call
FabsInRange(c) == {product_df.rows[i].fab_id : i \in RowsInRange(c)}
ProductsInRange(c) == {product_df.rows[i].prod_id : i \in RowsInRange(c)}
ProductsOfInRange(m, c) ==
    {product_df.rows[i].prod_id :
        i \in {k \in RowsInRange(c) : product_df.rows[k].fab_id = m}}

RECURSIVE ProductCountSumInRange(_, _)
ProductCountSumInRange(S, c) ==
    IF S = {} THEN 0
    ELSE LET m == CHOOSE x \in S : TRUE
         IN  Cardinality(ProductsOfInRange(m, c)) + ProductCountSumInRange(S \ {m}, c)

RangeQueries ==
    {"count_market_actors_by_category", "avg_products_per_manufacturer_by_category",
     "manufacturer_share_in_category", "manufacturer_products_in_category"}

\* C16: with a date range, count_market_actors_by_category,
\* avg_products_per_manufacturer_by_category, manufacturer_share_in_category and
\* manufacturer_products_in_category count only the product records dated
\* within the range, on every table whose records carry date_id.
C16_RangeRestrictsRecords ==
    (/\ call # None /\ call.op \in RangeQueries /\ ~Unranged
     /\ product_df # None /\ ProductColumns \subseteq product_df.columns)
        => /\ Returns
           /\ call.op = "count_market_actors_by_category"
                 => ret.count = Cardinality(FabsInRange(call.category_id))
           /\ call.op = "manufacturer_products_in_category"
                 => ret.count = Cardinality(ProductsOfInRange(call.manufacturer_id,
                                                              call.category_id))
           /\ call.op = "manufacturer_share_in_category"
                 => ret.score =
                       (IF ProductsInRange(call.category_id) = {} THEN Zero
                        ELSE Rat(Cardinality(ProductsOfInRange(call.manufacturer_id,
                                                               call.category_id)),
                                 Cardinality(ProductsInRange(call.category_id))))
           /\ call.op = "avg_products_per_manufacturer_by_category"
                 => ret.score =
                       (IF FabsInRange(call.category_id) = {} THEN Zero
                        ELSE Rat(ProductCountSumInRange(FabsInRange(call.category_id),
                                                        call.category_id),
                                 Cardinality(FabsInRange(call.category_id))))

\* C16 holds on the tables that also carry the column date_formatted
C16_WithDateFormatted ==
    (product_df # None /\ "date_formatted" \in product_df.columns)
        => C16_RangeRestrictsRecords

\* C17 as stated: every query on an engine on which no snapshot was ever set
\* (product_df and sale_df still None) raises to the caller instead of
\* returning a value.
C17_NoSnapshotRaises ==
    (call # None /\ product_df = None /\ sale_df = None)
        => (ret # None /\ ret.kind = "raise")

CountQueries == {"count_market_actors_by_category", "manufacturer_products_in_category"}
ScoreQueries ==
    {"avg_products_per_manufacturer_by_category", "manufacturer_share_in_category",
     "manufacturer_health_score", "avg_products_in_discount_period"}
StoreQueries == {"top_stores", "top_stores_in_discount_period"}

\* the zero value of the query called: 0, 0.0, no store, or periods that all
\* count 0 or score 0.0
IsZeroValue ==
    /\ call.op \in CountQueries => ret.count = 0
    /\ call.op \in ScoreQueries => ret.score = Zero
    /\ call.op \in StoreQueries => ret.stores = <<>>
    /\ call.op = "market_actors_over_time"
          => \A i \in DOMAIN ret.frame : ret.frame[i].actor_count = 0
    /\ call.op = "manufacturer_health_score_over_time"
          => \A i \in DOMAIN ret.frame : ret.frame[i].health_score = Zero

\* C18 as stated: on a loaded snapshot no query raises, and on one whose
\* tables have no row every query returns its zero value.
C18_LoadedNeverRaises ==
    (call # None /\ product_df # None /\ sale_df # None)
        => /\ Returns
           /\ (empty(product_df) /\ empty(sale_df)) => IsZeroValue

\* C18 holds on the snapshots whose tables carry their columns
C18_WithColumns ==
    (/\ product_df # None /\ sale_df # None
     /\ ProductColumns \subseteq product_df.columns
     /\ SaleColumns \subseteq sale_df.columns)
        => C18_LoadedNeverRaises

\* C19: no query changes the tables the engine holds: a step that starts or
\* ends a query leaves the rows and the columns of product_df and sale_df as
\* they are.
C19_QueriesKeepSnapshot ==
    [][(call # None \/ call' # None) =>
           (product_df' = product_df /\ sale_df' = sale_df)]_vars

\* C19 witness: the health score over time was computed on a sale table without
\* date_formatted, which the query derived; the held table still lacks it
C19_Witness ==
    /\ Called("manufacturer_health_score_over_time") /\ Returns
    /\ ~empty(sale_df)
    /\ "date_formatted" \notin sale_df.columns
    /\ \E i \in DOMAIN ret.frame : ret.frame[i].health_score = One

\* C20 as stated: a health score computed while set_dataframes replaces the
\* snapshot reads its two tables from one snapshot handed to the engine.
C20_SwapIsAtomic ==
    (/\ Called("manufacturer_health_score") /\ setter # None
     /\ call.pc = "done" /\ call.products # None)
        => \E k \in DOMAIN setter.snapshots :
              setter.snapshots[k] = <<call.products, call.sales>>

(***************************************************************************)
(* Imports                                                                 *)
(***************************************************************************)
\* an import of the list was made on the table `before`
ProductImport == imported # None /\ imported.op = "import_products_data"
SaleImport == imported # None /\ imported.op = "import_sales_data"

\* the log ids of the logs of the list that carry every required key
ListedIds(data_list, keys) ==
    {data_list[i].logID : i \in {k \in DOMAIN data_list : keys \subseteq DOMAIN data_list[k]}}

\* the list imports again records that are stored, and no other
StoredAgain(data_list, keys, table) ==
    /\ ListedIds(data_list, keys) # {}
    /\ ListedIds(data_list, keys) \subseteq LogIdsOf(table)

RowCount(table, id) == Cardinality({i \in DOMAIN table : table[i].log_id = id})

\* the import just made inserted nothing for the stored log ids, and nothing at
\* all when every record of its list was stored
InsertsNothingTwice(data_list, keys, before, after) ==
    /\ \A id \in LogIdsOf(before) : RowCount(after, id) = RowCount(before, id)
    /\ StoredAgain(data_list, keys, before)
          => /\ imported'.kind = "return" /\ imported'.count = 0
             /\ Len(after) = Len(before)

\* C21: importing again a record whose log_id is stored inserts nothing: the
\* import returns 0 and the table has as many rows as before.
C21_ReimportInsertsNothing ==
    [][(imported = None /\ imported' # None) =>
          /\ imported'.op = "import_products_data" =>
                InsertsNothingTwice(imported'.data_list, ProductKeys,
                                    products_table, products_table')
          /\ imported'.op = "import_sales_data" =>
                InsertsNothingTwice(imported'.data_list, SaleKeys,
                                    sales_table, sales_table')]_vars

\* C21 witness: a list of two stored product records was imported and 0 returned
C21_Witness ==
    /\ ProductImport
    /\ Len(imported.data_list) = 2
    /\ Cardinality(ListedIds(imported.data_list, ProductKeys)) = 2
    /\ StoredAgain(imported.data_list, ProductKeys, products_table)
    /\ imported.kind = "return" /\ imported.count = 0

\* C22: each table holds at most one row per log_id, whatever imports were
\* made and however they ended.
C22_OneRowPerLogId ==
    /\ \A id \in LogIdsOf(products_table) : RowCount(products_table, id) = 1
    /\ \A id \in LogIdsOf(sales_table) : RowCount(sales_table, id) = 1

\* C22 witness: an import of a stored and of a new record has failed
C22_Witness ==
    /\ ProductImport
    /\ imported.kind = "raise"
    /\ ListedIds(imported.data_list, ProductKeys) \cap LogIdsOf(products_table) # {}
    /\ ListedIds(imported.data_list, ProductKeys) \ LogIdsOf(products_table) # {}

\* C23: a stored record stays, with the values it has, through every import.
C23_StoredRecordsStay ==
    [][/\ \A i \in DOMAIN products_table :
             \E j \in DOMAIN products_table' : products_table'[j] = products_table[i]
       /\ \A i \in DOMAIN sales_table :
             \E j \in DOMAIN sales_table' : sales_table'[j] = sales_table[i]]_vars

\* C23 witness: an import supplied a stored log_id with another prod_id, and
\* the stored row has kept its own
C23_Witness ==
    /\ ProductImport
    /\ \E i \in DOMAIN imported.data_list, j \in DOMAIN products_table :
          /\ ProductKeys \subseteq DOMAIN imported.data_list[i]
          /\ imported.data_list[i].logID = products_table[j].log_id
          /\ imported.data_list[i].prodID # products_table[j].prod_id

\* the list holds twice a log_id that the table does not hold
TwiceNew(data_list, keys, table) ==
    \E i, j \in DOMAIN data_list :
        /\ i # j
        /\ keys \subseteq DOMAIN data_list[i] /\ keys \subseteq DOMAIN data_list[j]
        /\ data_list[i].logID = data_list[j].logID
        /\ data_list[i].logID \notin LogIdsOf(table)

\* C29 as stated: a list that holds twice a log_id not yet stored makes the
\* insert fail on the primary key; the exception reaches the caller and the
\* table is as before the call.
C29_DuplicateFailsOnPrimaryKey ==
    [][(imported = None /\ imported' # None) =>
          /\ (/\ imported'.op = "import_products_data"
              /\ TwiceNew(imported'.data_list, ProductKeys, products_table))
                => /\ imported'.kind = "raise" /\ imported'.error = "UniqueViolation"
                   /\ products_table' = products_table
          /\ (/\ imported'.op = "import_sales_data"
              /\ TwiceNew(imported'.data_list, SaleKeys, sales_table))
                => /\ imported'.kind = "raise" /\ imported'.error = "UniqueViolation"
                   /\ sales_table' = sales_table]_vars

\* the outcome of C29 without its cause: the import raises and the table is as before
C29_DuplicateLeavesTable ==
    [][(imported = None /\ imported' # None) =>
          /\ (/\ imported'.op = "import_products_data"
              /\ TwiceNew(imported'.data_list, ProductKeys, products_table))
                => (imported'.kind = "raise" /\ products_table' = products_table)
          /\ (/\ imported'.op = "import_sales_data"
              /\ TwiceNew(imported'.data_list, SaleKeys, sales_table))
                => (imported'.kind = "raise" /\ sales_table' = sales_table)]_vars

\* an import of new records without any duplicate raises as well
ImportOfNewRecordsRaises ==
    (/\ ProductImport
     /\ ListedIds(imported.data_list, ProductKeys) \ LogIdsOf(products_table) # {})
        => (imported.kind = "raise" /\ imported.error = "ValueError")

(***************************************************************************)
(* Discount periods                                                        *)
(***************************************************************************)
\* the inclusive window of a discount period: Jan 12 to Feb 8, Jun 22 to Jul 19
Window(is_winter, year) ==
    IF is_winter THEN <<datetime(year, 1, 12), datetime(year, 2, 8)>>
    ELSE <<datetime(year, 6, 22), datetime(year, 7, 19)>>

InWindow(date_id, window) ==
    to_datetime(date_id) >= window[1] /\ to_datetime(date_id) <= window[2]

\* the product records of category c dated within the window, their
\* manufacturers, and the products of manufacturer m among them
RowsInWindow(c, window) ==
    Rows(product_df, LAMBDA r : r.cat_id = c /\ InWindow(r.date_id, window))
FabsInWindow(c, window) == {product_df.rows[i].fab_id : i \in RowsInWindow(c, window)}
ProductsOfInWindow(m, c, window) ==
    {product_df.rows[i].prod_id :
        i \in {k \in RowsInWindow(c, window) : product_df.rows[k].fab_id = m}}

RECURSIVE ProductCountSumInWindow(_, _, _)
ProductCountSumInWindow(S, c, window) ==
    IF S = {} THEN 0
    ELSE LET m == CHOOSE x \in S : TRUE
         IN  Cardinality(ProductsOfInWindow(m, c, window))
                + ProductCountSumInWindow(S \ {m}, c, window)

\* C24: avg_products_in_discount_period(c, is_winter, year) averages exactly
\* the product records of category c dated within the window of the period, on
\* every table whose records carry date_id.
C24_WindowRestrictsRecords ==
    (/\ Called("avg_products_in_discount_period")
     /\ product_df # None /\ ProductColumns \subseteq product_df.columns)
        => LET window == Window(call.is_winter, call.year)
               fabs == FabsInWindow(call.category_id, window)
           IN  /\ Returns
               /\ ret.score =
                     (IF fabs = {} THEN Zero
                      ELSE Rat(ProductCountSumInWindow(fabs, call.category_id, window),
                               Cardinality(fabs)))

\* C24 holds on the tables that also carry the column date_formatted
C24_WithDateFormatted ==
    (product_df # None /\ "date_formatted" \in product_df.columns)
        => C24_WindowRestrictsRecords

\* the sale records dated within the window, of the category if one is given
SalesInWindow(c, window) ==
    Where(sale_df, {r \in RowsOf(sale_df) :
                       /\ InWindow(r.date_id, window)
                       /\ c # NoCategory => r.cat_id = c})

\* C25: on every snapshot whose records carry date_id, the discount-period
\* queries return what the general queries return for the window of the period:
\* avg_products_in_discount_period what
\* avg_products_per_manufacturer_by_category returns for (start, end), and
\* top_stores_in_discount_period what top_stores returns on the sale records
\* of the window.
C25_DiscountIsGeneralInWindow ==
    /\ (/\ Called("avg_products_in_discount_period")
        /\ product_df # None /\ ProductColumns \subseteq product_df.columns)
          => LET window == Window(call.is_winter, call.year)
             IN  /\ Returns
                 /\ ret.score = avg_products_per_manufacturer_by_category(
                                    product_df, call.category_id, window[1], window[2])
    /\ (/\ Called("top_stores_in_discount_period")
        /\ sale_df # None /\ SaleColumns \subseteq sale_df.columns)
          => /\ Returns
             /\ ret.stores = top_stores(SalesInWindow(call.category_id,
                                                      Window(call.is_winter, call.year)),
                                        call.n)

\* C25 holds on the snapshots that also carry the column date_formatted
C25_WithDateFormatted ==
    (/\ product_df # None /\ sale_df # None
     /\ "date_formatted" \in product_df.columns
     /\ "date_formatted" \in sale_df.columns)
        => C25_DiscountIsGeneralInWindow

(***************************************************************************)
(* Undecodable dates                                                       *)
(***************************************************************************)
Undecodable(df) == \E i \in DOMAIN df.rows : ~Decodable(df.rows[i].date_id)

DateQueries ==
    {"count_market_actors_by_category", "market_actors_over_time",
     "manufacturer_health_score_over_time", "avg_products_in_discount_period",
     "top_stores_in_discount_period"}

\* the actors of category c counted on the records with a decodable date
DecodableActorsIn(c, period_start, period_end) ==
    {product_df.rows[i].fab_id :
        i \in Rows(product_df, LAMBDA r : /\ r.cat_id = c
                                          /\ Decodable(r.date_id)
                                          /\ to_datetime(r.date_id) >= period_start
                                          /\ to_datetime(r.date_id) < period_end)}

\* C26 as stated: on a snapshot with a date_id that is no calendar date, no
\* date-dependent query raises, and market_actors_over_time still counts, in
\* each period, the records whose date can be decoded.
C26_UndecodableDatesExcluded ==
    (/\ call # None /\ call.op \in DateQueries
     /\ Undecodable(product_df) \/ Undecodable(sale_df))
        => /\ Returns
           /\ call.op = "market_actors_over_time"
                 => \A i \in DOMAIN ret.frame :
                       ret.frame[i].actor_count =
                          Cardinality(DecodableActorsIn(
                              call.category_id, ret.frame[i].period_start,
                              market_periods(call.start_date, call.end_date,
                                             call.freq)[i][2]))

\* the queries of C26 that do not decode date_id return on such a snapshot
C26_OthersReturn ==
    (/\ call # None
     /\ call.op \in DateQueries \ {"market_actors_over_time",
                                   "manufacturer_health_score_over_time"}
     /\ Undecodable(product_df) \/ Undecodable(sale_df))
        => Returns

(***************************************************************************)
(* End-to-end scenario                                                     *)
(***************************************************************************)
\* C27: on the snapshot of the scenario, count_market_actors_by_category(5) is
\* 2, avg_products_per_manufacturer_by_category(5) is 1.0, top_stores(5) is
\* [(10, 1)], manufacturer_health_score(1, 5, top_n_stores=1) is 1.0 and
\* manufacturer_health_score(2, 5, top_n_stores=1) is 0.0.
C27_Scenario ==
    (/\ call # None /\ product_df = ScenarioProducts /\ sale_df = ScenarioSales)
        => /\ (Called("count_market_actors_by_category") /\ call.category_id = 5)
                 => (Returns /\ ret.count = 2)
           /\ (Called("avg_products_per_manufacturer_by_category")
               /\ call.category_id = 5)
                 => (Returns /\ ret.score = One)
           /\ (Called("top_stores") /\ call.n = 5)
                 => (Returns /\ ret.stores = <<[mag_id |-> 10, agreement_count |-> 1]>>)
           /\ (/\ Called("manufacturer_health_score")
               /\ call.category_id = 5 /\ call.top_n_stores = 1)
                 => /\ Returns
                    /\ call.manufacturer_id = 1 => ret.score = One
                    /\ call.manufacturer_id = 2 => ret.score = Zero

\* C27 witness: the health score of manufacturer 1 of the scenario is 1.0
C27_Witness ==
    /\ product_df = ScenarioProducts /\ sale_df = ScenarioSales
    /\ Called("manufacturer_health_score")
    /\ call.manufacturer_id = 1 /\ call.category_id = 5 /\ call.top_n_stores = 1
    /\ Returns /\ ret.score = One

(***************************************************************************)
(* One-sided date ranges                                                   *)
(***************************************************************************)
OneBound == (call.start_date = NoDate) # (call.end_date = NoDate)

\* C30: a range query called with exactly one of start_date and end_date
\* returns what the same call returns without any date range.
C30_OneBoundIsNoRange ==
    (call # None /\ OneBound) =>
        /\ Returns
        /\ Called("count_market_actors_by_category")
              => ret.count = count_market_actors_by_category(
                                 product_df, call.category_id, NoDate, NoDate)
        /\ Called("manufacturer_products_in_category")
              => ret.count = manufacturer_products_in_category(
                                 product_df, call.manufacturer_id, call.category_id,
                                 NoDate, NoDate)
        /\ Called("avg_products_per_manufacturer_by_category")
              => ret.score = avg_products_per_manufacturer_by_category(
                                 product_df, call.category_id, NoDate, NoDate)
        /\ Called("manufacturer_share_in_category")
              => ret.score = manufacturer_share_in_category(
                                 product_df, call.manufacturer_id, call.category_id,
                                 NoDate, NoDate)
        /\ Called("manufacturer_health_score")
              => ret.score = manufacturer_health_score(
                                 product_df, sale_df, call.manufacturer_id,
                                 call.category_id, NoDate, NoDate, call.top_n_stores)

\* C30 witness: the only record of the category is dated before the start_date
\* given alone, and is counted
C30_Witness ==
    /\ Called("count_market_actors_by_category")
    /\ call.start_date # NoDate /\ call.end_date = NoDate
    /\ Len(product_df.rows) = 1
    /\ product_df.rows[1].cat_id = call.category_id
    /\ product_df.rows[1].date_formatted < call.start_date
    /\ Returns /\ ret.count = 1

(***************************************************************************)
(* Batches of the loader                                                   *)
(***************************************************************************)
\* both fetches of the range return nothing
EmptyBatch(range) ==
    (loader.product_ids \cup loader.sale_ids) \cap range[1]..range[2] = {}

\* the ids of the ranges fetched so far
FetchedIds == UNION {loader.ranges[i][1]..loader.ranges[i][2] : i \in DOMAIN loader.ranges}

\* ceil(max_records / batch_size)
CeilBatches ==
    CHOOSE n \in 0..MaxRecords :
        /\ n * loader.batch_size >= loader.max_records
        /\ (n - 1) * loader.batch_size < loader.max_records \/ n = 0

\* the ranges fetched are the first batches, in order and disjoint, at most
\* ceil(max_records / batch_size) of them, and none follows an empty batch
BatchPlan ==
    /\ \A b \in DOMAIN loader.ranges :
          loader.ranges[b] = <<(b - 1) * loader.batch_size + 1,
                               Min(b * loader.batch_size, loader.max_records)>>
    /\ \A a, b \in DOMAIN loader.ranges : a < b => loader.ranges[a][2] < loader.ranges[b][1]
    /\ Len(loader.ranges) <= CeilBatches
    /\ \A b \in DOMAIN loader.ranges : b < Len(loader.ranges) => ~EmptyBatch(loader.ranges[b])

\* C28 as stated: the loader fetches the batches [(b-1)*batch_size+1,
\* min(b*batch_size, max_records)] in order, disjoint, at most
\* ceil(max_records/batch_size) of them, and when it has stopped it has either
\* fetched every id of 1..max_records or stopped at a batch whose two fetches
\* returned nothing.
C28_BatchesCoverUntilEmpty ==
    loader # None =>
        /\ BatchPlan
        /\ loader.pc # "loop"
              => \/ FetchedIds = 1..loader.max_records
                 \/ /\ loader.ranges # <<>>
                    /\ EmptyBatch(loader.ranges[Len(loader.ranges)])

\* the plan of the batches holds, however the loader stops
C28_BatchPlanHolds == loader # None => BatchPlan

\* the loader that has not raised has covered 1..max_records or met an empty batch
C28_ReturnedCovers ==
    (loader # None /\ loader.pc = "returned")
        => \/ FetchedIds = 1..loader.max_records
           \/ /\ loader.ranges # <<>>
              /\ EmptyBatch(loader.ranges[Len(loader.ranges)])

====
